---- MODULE Spec2Model ----
(***************************************************************************)
(* Model of the test-file resolution scripts of tools/test_generator:      *)
(*   frontend/scripts/find_related_test_files.py  (JS/TS/Svelte)           *)
(*   backend/scripts/find_related_test_files.py   (Python)                 *)
(*   frontend/scripts/find_related_files.py       (import resolution)      *)
(* Paths and file contents are character strings; the string and os.path   *)
(* functions the scripts call are modelled character by character.         *)
(***************************************************************************)
EXTENDS Integers, Sequences, FiniteSets, TLC

VARIABLES
    script,             \* the script that runs: "frontend" or "backend" (find_related_test_files.py),
                        \* "resolver" (resolve_import_to_filepath of find_related_files.py),
                        \* "reference" (check_import_references_file of the frontend script)
    files,              \* the filesystem: absolute path of every regular file |-> its text
    input,              \* the lines of the input list file (sys.argv[1])
    pc,                 \* position of main: "open", "loop", "done", "failed"; of a call: "call", "returned"
    consumed,           \* the numbers of the input lines the loop of main has processed
    source_files_list,  \* frontend main: the non-blank lines seen so far
    file_to_tests_map,  \* main: source path |-> list of test files
    all_test_files,     \* main: test files collected so far, with duplicates
    warnings,           \* the paths of the "Warning: Could not find source file" messages
    trace,              \* line number |-> the path taken through the loop body for that line
                        \* and the turn in which the line was processed
    output,             \* the artifacts written: file name |-> content
    exit_code,          \* the exit status of the process, -1 while it runs
    import_request,     \* resolver: the arguments of the call of resolve_import_to_filepath
    resolved_file,      \* resolver: the value returned, "" for None
    previous_output,    \* the artifacts an earlier run of main has left, <<>> when there was none
    unreadable,         \* the files whose open() or read() raises (permissions, invalid UTF-8)
    reference_request,  \* the arguments of a call of check_import_references_file
    references          \* the outcome of that call, <<>> before it returns

vars == <<script, files, input, pc, consumed, source_files_list, file_to_tests_map,
          all_test_files, warnings, trace, output, exit_code, import_request, resolved_file,
          previous_output, unreadable, reference_request, references>>

(***************************************************************************)
(* Python str methods                                                      *)
(***************************************************************************)

\* s[i] as a one-character string (1-based)
Char(s, i) == SubSeq(s, i, i)

\* s[i:] (1-based start)
From(s, i) == SubSeq(s, i, Len(s))

\* str.startswith
StartsWith(s, p) == Len(p) <= Len(s) /\ SubSeq(s, 1, Len(p)) = p

\* str.endswith
EndsWith(s, p) == Len(p) <= Len(s) /\ SubSeq(s, Len(s) - Len(p) + 1, Len(s)) = p

\* p occurs in s at position i
OccursAt(s, p, i) == i >= 1 /\ i + Len(p) - 1 <= Len(s) /\ SubSeq(s, i, i + Len(p) - 1) = p

\* the `in` operator on strings
Contains(s, p) == \E i \in 1..(Len(s) - Len(p) + 1) : OccursAt(s, p, i)

\* str.find from position i (1-based); 0 when p does not occur
RECURSIVE Find(_, _, _)
Find(s, p, i) ==
    IF i + Len(p) - 1 > Len(s) THEN 0
    ELSE IF OccursAt(s, p, i) THEN i
    ELSE Find(s, p, i + 1)

\* str.rfind of a one-character string, searching backwards from i; 0 when absent
RECURSIVE RFind(_, _, _)
RFind(s, c, i) ==
    IF i < 1 THEN 0
    ELSE IF Char(s, i) = c THEN i
    ELSE RFind(s, c, i - 1)

\* str.replace(a, b) with a non-empty: every non-overlapping occurrence, left to right
RECURSIVE Replace(_, _, _)
Replace(s, a, b) ==
    LET k == Find(s, a, 1)
    IN  IF k = 0 THEN s
        ELSE SubSeq(s, 1, k - 1) \o b \o Replace(From(s, k + Len(a)), a, b)

\* the pieces of s[start..] cut at the separators found from position i on
RECURSIVE SplitAt(_, _, _, _)
SplitAt(s, sep, start, i) ==
    IF i > Len(s) THEN <<SubSeq(s, start, Len(s))>>
    ELSE IF Char(s, i) = sep THEN <<SubSeq(s, start, i - 1)>> \o SplitAt(s, sep, i + 1, i + 1)
    ELSE SplitAt(s, sep, start, i + 1)

\* str.split(sep) with a one-character separator: sequence of the pieces
Split(s, sep) == SplitAt(s, sep, 1, 1)

\* sep.join(parts)
RECURSIVE JoinStr(_, _)
JoinStr(parts, sep) ==
    IF Len(parts) = 0 THEN ""
    ELSE IF Len(parts) = 1 THEN parts[1]
    ELSE parts[1] \o sep \o JoinStr(Tail(parts), sep)

IsSpace(c) == c \in {" ", "\n", "\t"}

\* str.strip
RECURSIVE LStrip(_)
LStrip(s) == IF Len(s) > 0 /\ IsSpace(Char(s, 1)) THEN LStrip(From(s, 2)) ELSE s

RECURSIVE RStrip(_)
RStrip(s) == IF Len(s) > 0 /\ IsSpace(Char(s, Len(s))) THEN RStrip(SubSeq(s, 1, Len(s) - 1)) ELSE s

Strip(s) == RStrip(LStrip(s))

UpperChars == "ABCDEFGHIJKLMNOPQRSTUVWXYZ"
LowerChars == "abcdefghijklmnopqrstuvwxyz"

\* the characters of a string
Chars(s) == {Char(s, k) : k \in 1..Len(s)}

UpperSet == Chars(UpperChars)
LowerSet == Chars(LowerChars)
LowerOf == [c \in UpperSet |-> Char(LowerChars, Find(UpperChars, c, 1))]
UpperOf == [c \in LowerSet |-> Char(UpperChars, Find(LowerChars, c, 1))]

LowerChar(c) == IF c \in UpperSet THEN LowerOf[c] ELSE c
UpperChar(c) == IF c \in LowerSet THEN UpperOf[c] ELSE c

\* str.lower
RECURSIVE Lower(_)
Lower(s) == IF Len(s) = 0 THEN "" ELSE LowerChar(Char(s, 1)) \o Lower(From(s, 2))

\* str.capitalize: first character upper-cased, the rest lower-cased
Capitalize(s) == IF Len(s) = 0 THEN "" ELSE UpperChar(Char(s, 1)) \o Lower(From(s, 2))

\* the elements of a sequence
Range(q) == {q[k] : k \in 1..Len(q)}

(***************************************************************************)
(* os.path (posixpath) and the filesystem                                  *)
(***************************************************************************)

\* os.path.join(a, b)
Join(a, b) ==
    IF StartsWith(b, "/") THEN b
    ELSE IF a = "" \/ EndsWith(a, "/") THEN a \o b
    ELSE a \o "/" \o b

Join3(a, b, c) == Join(Join(a, b), c)

\* os.path.basename
Basename(p) == From(p, RFind(p, "/", Len(p)) + 1)

RECURSIVE RStripSlash(_)
RStripSlash(s) == IF EndsWith(s, "/") THEN RStripSlash(SubSeq(s, 1, Len(s) - 1)) ELSE s

\* os.path.dirname
Dirname(p) ==
    LET head == SubSeq(p, 1, RFind(p, "/", Len(p)))
    IN  IF RStripSlash(head) = "" THEN head ELSE RStripSlash(head)

\* first index in lo..hi-1 whose character is not a dot; 0 when there is none
RECURSIVE FirstNonDot(_, _, _)
FirstNonDot(p, lo, hi) ==
    IF lo >= hi THEN 0
    ELSE IF Char(p, lo) # "." THEN lo
    ELSE FirstNonDot(p, lo + 1, hi)

\* os.path.splitext: <<root, ext>>
Splitext(p) ==
    LET sepIndex == RFind(p, "/", Len(p))
        dotIndex == RFind(p, ".", Len(p))
    IN  IF dotIndex > sepIndex /\ FirstNonDot(p, sepIndex + 1, dotIndex) # 0
        THEN <<SubSeq(p, 1, dotIndex - 1), From(p, dotIndex)>>
        ELSE <<p, "">>

\* the component loop of os.path.normpath
RECURSIVE NormComps(_, _, _)
NormComps(comps, new_comps, initial_slashes) ==
    IF Len(comps) = 0 THEN new_comps
    ELSE LET comp == Head(comps)
         IN  IF comp \in {"", "."} THEN NormComps(Tail(comps), new_comps, initial_slashes)
             ELSE IF \/ comp # ".."
                     \/ (initial_slashes = 0 /\ Len(new_comps) = 0)
                     \/ (Len(new_comps) > 0 /\ new_comps[Len(new_comps)] = "..")
                  THEN NormComps(Tail(comps), Append(new_comps, comp), initial_slashes)
             ELSE IF Len(new_comps) > 0
                  THEN NormComps(Tail(comps), SubSeq(new_comps, 1, Len(new_comps) - 1), initial_slashes)
             ELSE NormComps(Tail(comps), new_comps, initial_slashes)

\* os.path.normpath
NormPath(path) ==
    IF path = "" THEN "."
    ELSE LET initial_slashes ==
                 IF ~StartsWith(path, "/") THEN 0
                 ELSE IF StartsWith(path, "//") /\ ~StartsWith(path, "///") THEN 2
                 ELSE 1
             body == JoinStr(NormComps(Split(path, "/"), <<>>, initial_slashes), "/")
             res  == (IF initial_slashes = 2 THEN "//" ELSE IF initial_slashes = 1 THEN "/" ELSE "") \o body
         IN  IF res = "" THEN "." ELSE res

\* the working directory of the process and the workspace argument (sys.argv[2])
Cwd == "/run"
workspace_dir == "/w"

\* os.path.abspath
AbsPath(p) == NormPath(Join(Cwd, p))

\* the non-empty components of a path
NonEmpty(q) == SelectSeq(q, LAMBDA c : c # "")

\* length of the common prefix of two component lists
RECURSIVE CommonLen(_, _)
CommonLen(a, b) ==
    IF Len(a) = 0 \/ Len(b) = 0 \/ Head(a) # Head(b) THEN 0
    ELSE 1 + CommonLen(Tail(a), Tail(b))

\* os.path.relpath(path, start)
RelPath(path, start) ==
    LET start_list == NonEmpty(Split(AbsPath(start), "/"))
        path_list  == NonEmpty(Split(AbsPath(path), "/"))
        i          == CommonLen(start_list, path_list)
        rel_list   == [k \in 1..(Len(start_list) - i) |-> ".."] \o SubSeq(path_list, i + 1, Len(path_list))
    IN  IF Len(rel_list) = 0 THEN "." ELSE JoinStr(rel_list, "/")

\* normalize_path: str(Path(path).resolve()); the modelled filesystem has no symbolic links
normalize_path(path) == AbsPath(path)

(***************************************************************************)
(* Regular-expression pieces used by extract_imports (re.findall)          *)
(***************************************************************************)

WordChars == "abcdefghijklmnopqrstuvwxyzABCDEFGHIJKLMNOPQRSTUVWXYZ0123456789_"
WordSet == Chars(WordChars)

\* character classes of the patterns: \s, \w, [^'"], [^}], [^>]
InClass(c, cls) ==
    CASE cls = "space"    -> IsSpace(c)
      [] cls = "word"     -> c \in WordSet
      [] cls = "notquote" -> c \notin {"'", "\""}
      [] cls = "notbrace" -> c # "}"
      [] cls = "notgt"    -> c # ">"

\* X* : the index after the longest run of class characters starting at i
RECURSIVE Star(_, _, _)
Star(s, i, cls) ==
    IF i <= Len(s) /\ InClass(Char(s, i), cls) THEN Star(s, i + 1, cls) ELSE i

\* X+ : as Star, 0 when the run is empty; 0 (no match so far) is passed through
Plus(s, i, cls) ==
    IF i = 0 THEN 0 ELSE LET j == Star(s, i, cls) IN IF j > i THEN j ELSE 0

\* a literal: the index after it, 0 when it does not occur at i
Lit(s, i, lit) == IF i # 0 /\ OccursAt(s, lit, i) THEN i + Len(lit) ELSE 0

\* one of several literals of length one
OneOf(s, i, chars) == IF i # 0 /\ i <= Len(s) /\ Char(s, i) \in chars THEN i + 1 ELSE 0

NoMatch == [end |-> 0, cap |-> ""]

\* ['"]([^'"]+)['"] : the capture and the index after the closing quote
Quoted(s, i) ==
    LET a == OneOf(s, i, {"'", "\""})
        b == Plus(s, a, "notquote")
        c == OneOf(s, b, {"'", "\""})
    IN  IF c = 0 THEN NoMatch ELSE [end |-> c, cap |-> SubSeq(s, a, b - 1)]

\* (?:(?:\w+)|(?:{[^}]+})|(?:\*\s+as\s+\w+)) : the three import name patterns
ImportNames(s, i) ==
    LET w == Plus(s, i, "word")
        b == Lit(s, Plus(s, Lit(s, i, "{"), "notbrace"), "}")
        n == Plus(s, Plus(s, Lit(s, Plus(s, Lit(s, i, "*"), "space"), "as"), "space"), "word")
    IN  IF w # 0 THEN w ELSE IF b # 0 THEN b ELSE n

\* (?:(?:\w+)|(?:{[^}]+})|(?:\*)) : the three export patterns
ExportNames(s, i) ==
    LET w == Plus(s, i, "word")
        b == Lit(s, Plus(s, Lit(s, i, "{"), "notbrace"), "}")
        n == Lit(s, i, "*")
    IN  IF w # 0 THEN w ELSE IF b # 0 THEN b ELSE n

\* \s+from\s+['"]([^'"]+)['"]
FromClause(s, i) == Quoted(s, Plus(s, Lit(s, Plus(s, i, "space"), "from"), "space"))

\* ...\(\s*['"]([^'"]+)['"]\s*\) after the keyword
CallClause(s, i) ==
    LET m == Quoted(s, IF Lit(s, i, "(") = 0 THEN 0 ELSE Star(s, Lit(s, i, "("), "space"))
        e == IF m.end = 0 THEN 0 ELSE Lit(s, Star(s, m.end, "space"), ")")
    IN  IF e = 0 THEN NoMatch ELSE [end |-> e, cap |-> m.cap]

\* the keyword every pattern starts with
Keyword(pattern) ==
    IF pattern = "export" THEN "export" ELSE IF pattern = "require" THEN "require" ELSE "import"

\* one attempt of the named pattern at position i
MatchAt(s, i, pattern) ==
    LET k == Lit(s, i, Keyword(pattern))
    IN  IF k = 0 THEN NoMatch
        ELSE CASE pattern = "es6"         -> FromClause(s, ImportNames(s, Plus(s, k, "space")))
               [] pattern = "side_effect" -> Quoted(s, Plus(s, k, "space"))
               [] pattern = "export"      -> FromClause(s, ExportNames(s, Plus(s, k, "space")))
               [] pattern = "dynamic"     -> CallClause(s, k)
               [] pattern = "require"     -> CallClause(s, k)

\* re.findall(pattern, s): the captures of the non-overlapping matches, left to right
RECURSIVE FindAll(_, _, _)
FindAll(s, i, pattern) ==
    IF i > Len(s) THEN <<>>
    ELSE LET m == MatchAt(s, i, pattern)
         IN  IF m.end = 0 THEN FindAll(s, i + 1, pattern)
             ELSE <<m.cap>> \o FindAll(s, m.end, pattern)

\* re.findall(r'<script[^>]*>(.*?)</script>', s, re.DOTALL)
RECURSIVE FindScripts(_, _)
FindScripts(s, i) ==
    IF i > Len(s) THEN <<>>
    ELSE LET a == Lit(s, Star(s, Lit(s, i, "<script"), "notgt"), ">")
             k == IF a = 0 THEN 0 ELSE Find(s, "</script>", a)
         IN  IF Lit(s, i, "<script") = 0 \/ a = 0 \/ k = 0 THEN FindScripts(s, i + 1)
             ELSE <<SubSeq(s, a, k - 1)>> \o FindScripts(s, k + Len("</script>"))

(***************************************************************************)
(* The filesystem as the scripts see it                                    *)
(***************************************************************************)

\* a directory exists when it is the root, the working directory, the workspace
\* or an ancestor of a file
IsDir(p) ==
    \/ p \in {"/", Cwd, workspace_dir}
    \/ \E f \in DOMAIN files : StartsWith(f, p \o "/")

IsFile(p) == p \in DOMAIN files

\* the kernel's path walk from the directory cur: the canonical path reached,
\* "" when a component is missing or a non-directory is traversed
RECURSIVE WalkFrom(_, _)
WalkFrom(cur, comps) ==
    IF Len(comps) = 0 THEN cur
    ELSE LET c == Head(comps)
             nxt == IF cur = "/" THEN "/" \o c ELSE cur \o "/" \o c
         IN  IF c \in {"", "."} THEN WalkFrom(cur, Tail(comps))
             ELSE IF c = ".." THEN WalkFrom(Dirname(cur), Tail(comps))
             ELSE IF IsDir(nxt) THEN WalkFrom(nxt, Tail(comps))
             ELSE IF IsFile(nxt) /\ Len(comps) = 1 THEN nxt
             ELSE ""

\* the file or directory a path designates, "" when there is none
Designates(p) ==
    IF p = "" THEN ""
    ELSE WalkFrom(IF StartsWith(p, "/") THEN "/" ELSE Cwd, Split(p, "/"))

\* os.path.exists
Exists(p) == Designates(p) # ""

\* open(p).read() taken to succeed on every regular file
Readable_ignores_errors(p) == IsFile(Designates(p))

\* open(p).read() succeeds on a regular file that can be read and decoded
Readable(p) == IsFile(Designates(p)) /\ Designates(p) \notin unreadable
ReadText(p) == files[Designates(p)]

\* os.walk(top): the paths os.path.join(root, file) of every file below top
Walk(top) ==
    IF ~IsDir(Designates(top)) THEN {}
    ELSE {top \o From(f, Len(Designates(top)) + 1) :
              f \in {g \in DOMAIN files : StartsWith(g, Designates(top) \o "/")}}

(***************************************************************************)
(* frontend/scripts/find_related_test_files.py                             *)
(***************************************************************************)

\* lines 66-101: the captures of the five import patterns in a text
import_specifiers(content) ==
    UNION {Range(FindAll(content, 1, pattern)) :
               pattern \in {"es6", "side_effect", "export", "dynamic", "require"}}

\* extract_imports: the set of import specifiers of a test file
extract_imports(test_file_path) ==
    IF ~Readable(test_file_path) THEN {}
    ELSE LET text == ReadText(test_file_path)
             script_matches == FindScripts(text, 1)
             content == IF EndsWith(test_file_path, ".svelte") /\ Len(script_matches) > 0
                        THEN JoinStr(script_matches, "\n")
                        ELSE text
         IN  import_specifiers(content)

\* is_test_file of the frontend script
frontend_is_test_file(file_path) ==
    LET file_name == Basename(file_path)
        file_dir  == Dirname(file_path)
        name_indicators ==
            \/ StartsWith(file_name, "test_")
            \/ EndsWith(file_name, ".test.js")
            \/ EndsWith(file_name, ".test.ts")
            \/ EndsWith(file_name, ".test.svelte")
            \/ EndsWith(file_name, ".spec.js")
            \/ EndsWith(file_name, ".spec.ts")
            \/ EndsWith(file_name, ".spec.svelte")
        dir_indicators ==
            \/ Contains(file_path, "/tests/")
            \/ Contains(file_path, "/test/")
            \/ Contains(file_path, "/__tests__/")
            \/ EndsWith(file_dir, "/tests")
            \/ EndsWith(file_dir, "/test")
            \/ EndsWith(file_dir, "/__tests__")
    IN  name_indicators \/ dir_indicators

\* the extensions tried for an import without extension
ImportExts == {".js", ".ts", ".svelte", ".jsx", ".tsx"}

\* lines 128-142: the relative branch of the import loop returns True
RelativeImportMatches(import_path, test_file_path, normalized_source) ==
    LET test_file_dir   == Dirname(test_file_path)
        resolved_import == NormPath(Join(test_file_dir, import_path))
    IN  \/ /\ Splitext(import_path)[2] = ""
           /\ \E ext \in ImportExts :
                  /\ Exists(resolved_import \o ext)
                  /\ normalize_path(resolved_import \o ext) = normalized_source
        \/ /\ Exists(resolved_import)
           /\ normalize_path(resolved_import) = normalized_source

\* lines 146-149: the chain of str.replace calls on an aliased import
alias_path(import_path) ==
    Replace(Replace(Replace(Replace(import_path,
        "$lib/", "src/lib/"),
        "$components/", "src/components/"),
        "$routes/", "src/routes/"),
        "$stores/", "src/stores/")

\* lines 145-162: the alias branch of the import loop returns True
AliasImportMatches(import_path, normalized_source) ==
    LET full_alias_path == Join(workspace_dir, alias_path(import_path))
    IN  \/ /\ Splitext(import_path)[2] = ""
           /\ \E ext \in ImportExts :
                  /\ Exists(full_alias_path \o ext)
                  /\ normalize_path(full_alias_path \o ext) = normalized_source
        \/ /\ Exists(full_alias_path)
           /\ normalize_path(full_alias_path) = normalized_source

\* str.split(sep) followed by the camelCase and PascalCase joins, lower-cased
CaseForms(source_base_name, sep) ==
    LET words == Split(source_base_name, sep)
        rest  == JoinStr([k \in 1..(Len(words) - 1) |-> Capitalize(words[k + 1])], "")
        camel_case  == Lower(words[1]) \o rest
        pascal_case == JoinStr([k \in 1..Len(words) |-> Capitalize(words[k])], "")
    IN  {Lower(camel_case), Lower(pascal_case)}

\* lines 171-188: component_names
component_names(source_base_name) ==
    {Lower(source_base_name)}
        \cup (IF Contains(source_base_name, "-") THEN CaseForms(source_base_name, "-") ELSE {})
        \cup (IF Contains(source_base_name, "_") THEN CaseForms(source_base_name, "_") ELSE {})

\* lines 193-204: the pattern strings after str.format(name=name); each is
\* searched as a plain substring (the `in` operator), not as a regular expression
usage_patterns(name) ==
    { "import {\\s*" \o name \o "\\s*}",
      "import " \o name,
      "const " \o name,
      "let " \o name,
      "class " \o name,
      "<" \o name,
      "render\\(" \o name,
      "mount\\(" \o name,
      "test\\(['\"].*" \o name \o ".*['\"]",
      "describe\\(['\"].*" \o name \o ".*['\"]" }

\* lines 166-214: the content-based reference check returns True
ContentReferences(test_file_path, source_file_path) ==
    /\ Readable(test_file_path)
    /\ LET content == Lower(ReadText(test_file_path))
           source_base_name == Splitext(Basename(source_file_path))[1]
           source_dir_name  == Lower(Basename(Dirname(source_file_path)))
       IN  \/ \E name \in component_names(source_base_name) :
                  \E pattern \in usage_patterns(name) : Contains(content, pattern)
           \/ /\ source_dir_name # ""
              /\ Len(source_dir_name) > 2
              /\ Contains(content, source_dir_name)

\* lines 126-162: the import of one iteration resolves to the source file
\* (return True at line 139, 142, 158 or 161)
ImportResolvesToSource(import_path, test_file_path, source_file_path) ==
    LET normalized_source == normalize_path(Join(workspace_dir, source_file_path))
    IN  \/ /\ StartsWith(import_path, ".")
           /\ RelativeImportMatches(import_path, test_file_path, normalized_source)
        \/ /\ ~StartsWith(import_path, ".")
           /\ StartsWith(import_path, "$")
           /\ AliasImportMatches(import_path, normalized_source)

\* one iteration of `for import_path in imports` returns True
ImportIterationMatches(import_path, test_file_path, source_file_path) ==
    \/ ImportResolvesToSource(import_path, test_file_path, source_file_path)
    \/ ContentReferences(test_file_path, source_file_path)

\* check_import_references_file: the loop body runs once per extracted import
check_import_references_file(test_file_path, source_file_path) ==
    \E import_path \in extract_imports(test_file_path) :
        ImportIterationMatches(import_path, test_file_path, source_file_path)

\* lines 238-246: test_patterns, in list order
frontend_test_patterns(file_path) ==
    LET parts == Splitext(Basename(file_path))
        name_without_ext == parts[1]
        ext == parts[2]
    IN  << name_without_ext \o ".test" \o ext,
           name_without_ext \o ".spec" \o ext,
           "test_" \o name_without_ext \o ext,
           name_without_ext \o ".test.js",
           name_without_ext \o ".spec.js",
           name_without_ext \o ".test.ts",
           name_without_ext \o ".spec.ts" >>

\* lines 249-254: relative_test_locations
relative_test_locations(file_path) ==
    LET source_dir == Dirname(Join(workspace_dir, file_path))
    IN  << source_dir,
           Join(source_dir, "__tests__"),
           Join(source_dir, "tests"),
           Join(source_dir, "test") >>

\* lines 257-282: project_test_locations
project_test_locations(file_path) ==
    (IF Contains(file_path, "src/components")
     THEN <<Dirname(Join(workspace_dir, Replace(file_path, "src/components", "tests/components")))>>
     ELSE <<>>)
    \o (IF Contains(file_path, "src/routes")
        THEN <<Dirname(Join(workspace_dir, Replace(file_path, "src/routes", "tests/routes")))>>
        ELSE <<>>)
    \o (IF Contains(file_path, "src/")
        THEN <<Dirname(Join(workspace_dir, Replace(file_path, "src/", "tests/")))>>
        ELSE <<>>)
    \o << Join(workspace_dir, "tests"),
          Join3(workspace_dir, "tests", "e2e"),
          Join3(workspace_dir, "tests", "unit") >>

\* the naming-pattern loops with a break after the first existing path
ExistingPairsFirstHit(test_dirs, test_patterns) ==
    LET hits == [i \in 1..Len(test_dirs), j \in 1..Len(test_patterns) |->
                    Exists(test_dirs[i]) /\ Exists(Join(test_dirs[i], test_patterns[j]))]
        first(i, j) == /\ hits[i, j]
                       /\ \A i2 \in 1..Len(test_dirs), j2 \in 1..Len(test_patterns) :
                              (i2 < i \/ (i2 = i /\ j2 < j)) => ~hits[i2, j2]
    IN  {Join(test_dirs[i], test_patterns[j]) :
            <<i, j>> \in {ij \in (1..Len(test_dirs)) \X (1..Len(test_patterns)) : first(ij[1], ij[2])}}

\* the naming-pattern loops taking the first candidate name of the first
\* directory without the os.path.exists test on the joined path
ExistingPairs_unchecked(test_dirs, test_patterns) ==
    UNION {{Join(test_dir, pattern) :
                pattern \in {n \in Range(test_patterns) : Exists(Join(test_dir, n))}} :
           test_dir \in {d \in Range(test_dirs) : Exists(d)}}
        \cup (IF Exists(test_dirs[1]) THEN {Join(test_dirs[1], test_patterns[1])} ELSE {})

\* lines 284-298 and 90-95: the existing paths os.path.join(test_dir, pattern),
\* for every existing directory of the list and every pattern
ExistingPairs(test_dirs, test_patterns) ==
    UNION {{Join(test_dir, pattern) :
                pattern \in {n \in Range(test_patterns) : Exists(Join(test_dir, n))}} :
           test_dir \in {d \in Range(test_dirs) : Exists(d)}}

\* lines 284-298: direct_test_files after the two naming-pattern loops
frontend_direct_test_files(file_path) ==
    ExistingPairs(relative_test_locations(file_path) \o project_test_locations(file_path),
                  frontend_test_patterns(file_path))

TestSuffixes == {".test.js", ".test.ts", ".spec.js", ".spec.ts"}

\* lines 303-313: all_test_files of the fallback
scan_test_files(file_path) ==
    {f \in Walk(Join(workspace_dir, "tests")) \cup Walk(Dirname(Join(workspace_dir, file_path))) :
        \E suffix \in TestSuffixes : EndsWith(Basename(f), suffix)}

\* lines 316-318: the test files of the fallback that reference the source
reference_matches(file_path) ==
    {test_file \in scan_test_files(file_path) : check_import_references_file(test_file, file_path)}

\* find_direct_test_file with the guard of line 301 dropped: the reference scan
\* always runs and its matches are added to the naming-pattern hits
frontend_find_direct_test_file_always_scans(line) ==
    LET file_path == Strip(line)
        direct    == frontend_direct_test_files(file_path)
    IN  IF ~Exists(Join(workspace_dir, file_path))
        THEN [warned |-> TRUE, searched |-> FALSE, candidates |-> {}, scanned |-> FALSE, result |-> {}]
        ELSE [warned |-> FALSE, searched |-> TRUE, candidates |-> direct, scanned |-> TRUE,
              result |-> {RelPath(t, workspace_dir) : t \in direct \cup reference_matches(file_path)}]

\* find_direct_test_file leaving out the test files main has already collected
frontend_find_direct_test_file_skips_collected(line) ==
    LET file_path == Strip(line)
        direct    == frontend_direct_test_files(file_path)
        fresh(ts) == {RelPath(t, workspace_dir) : t \in ts} \ Range(all_test_files)
    IN  IF ~Exists(Join(workspace_dir, file_path))
        THEN [warned |-> TRUE, searched |-> FALSE, candidates |-> {}, scanned |-> FALSE, result |-> {}]
        ELSE IF direct # {}
        THEN [warned |-> FALSE, searched |-> TRUE, candidates |-> direct, scanned |-> FALSE,
              result |-> fresh(direct)]
        ELSE [warned |-> FALSE, searched |-> TRUE, candidates |-> {}, scanned |-> TRUE,
              result |-> fresh(reference_matches(file_path))]

\* find_direct_test_file leaving out the test files an earlier run has already
\* listed in all_test_files.txt
frontend_find_direct_test_file_skips_reported(line) ==
    LET file_path == Strip(line)
        direct    == frontend_direct_test_files(file_path)
        reported  == IF previous_output = <<>> THEN {} ELSE Range(previous_output["all_test_files.txt"])
        fresh(ts) == {RelPath(t, workspace_dir) : t \in ts} \ reported
    IN  IF ~Exists(Join(workspace_dir, file_path))
        THEN [warned |-> TRUE, searched |-> FALSE, candidates |-> {}, scanned |-> FALSE, result |-> {}]
        ELSE IF direct # {}
        THEN [warned |-> FALSE, searched |-> TRUE, candidates |-> direct, scanned |-> FALSE,
              result |-> fresh(direct)]
        ELSE [warned |-> FALSE, searched |-> TRUE, candidates |-> {}, scanned |-> TRUE,
              result |-> fresh(reference_matches(file_path))]

\* find_direct_test_file of the frontend script.  result is the returned list as
\* a set; the other fields record the path taken through the function
frontend_find_direct_test_file(line) ==
    LET file_path == Strip(line)
        direct    == frontend_direct_test_files(file_path)
    IN  IF ~Exists(Join(workspace_dir, file_path))
        THEN [warned |-> TRUE, searched |-> FALSE, candidates |-> {}, scanned |-> FALSE, result |-> {}]
        ELSE IF direct # {}
        THEN [warned |-> FALSE, searched |-> TRUE, candidates |-> direct, scanned |-> FALSE,
              result |-> {RelPath(t, workspace_dir) : t \in direct}]
        ELSE [warned |-> FALSE, searched |-> TRUE, candidates |-> {}, scanned |-> TRUE,
              result |-> {RelPath(t, workspace_dir) : t \in reference_matches(file_path)}]

(***************************************************************************)
(* backend/scripts/find_related_test_files.py                              *)
(***************************************************************************)

\* is_test_file of the backend script
backend_is_test_file(file_path) ==
    LET file_name == Basename(file_path)
    IN  \/ StartsWith(file_name, "test_")
        \/ EndsWith(file_name, "_test.py")
        \/ Contains(file_name, "tests_")

\* lines 39-48 and 138-147: the first existing path of the two roots, "" when neither exists
resolved_file_path(file_path) ==
    IF Exists(Join(workspace_dir, file_path)) THEN Join(workspace_dir, file_path)
    ELSE IF Exists(Join3(workspace_dir, "backend", file_path)) THEN Join3(workspace_dir, "backend", file_path)
    ELSE ""

\* lines 58-63: test_patterns, in list order
backend_test_patterns(file_path) ==
    LET name_without_ext == Splitext(Basename(file_path))[1]
    IN  << "test_" \o name_without_ext \o ".py",
           name_without_ext \o "_test.py",
           "tests_" \o name_without_ext \o ".py",
           name_without_ext \o "_tests.py" >>

\* list.index(x): position of the first occurrence, 0 when absent
IndexOf(q, x) == IF x \in Range(q) THEN CHOOSE k \in 1..Len(q) : q[k] = x /\ \A j \in 1..(k - 1) : q[j] # x ELSE 0

\* lines 66-87: search_locations
search_locations(file_path) ==
    LET resolved      == resolved_file_path(file_path)
        file_dir      == Dirname(resolved)
        module_parts  == Split(resolved, "/")
        backend_index == IndexOf(module_parts, "backend")
        module_name   == IF backend_index # 0 /\ backend_index + 1 <= Len(module_parts)
                         THEN module_parts[backend_index + 1] ELSE ""
        module_base_path == Join3(workspace_dir, "backend", module_name)
    IN  << Join(file_dir, "tests"), Join(file_dir, "test") >>
        \o (IF module_name # ""
            THEN << Join(module_base_path, "tests"), Join(module_base_path, "test") >>
            ELSE <<>>)

\* lines 100-104: parent_test_dirs
parent_test_dirs(file_path) ==
    LET parent_dir == Dirname(Dirname(resolved_file_path(file_path)))
    IN  << Join(parent_dir, "tests"), Join(parent_dir, "test") >>

\* find_direct_test_file of the backend script.  result is the returned list as a set
backend_find_direct_test_file(line) ==
    LET file_path == Strip(line)
        primary   == ExistingPairs(search_locations(file_path), backend_test_patterns(file_path))
        parent    == ExistingPairs(parent_test_dirs(file_path), backend_test_patterns(file_path))
        direct    == IF primary # {} THEN primary ELSE parent
    IN  IF resolved_file_path(file_path) = ""
        THEN [warned |-> TRUE, searched |-> FALSE, candidates |-> {}, scanned |-> FALSE, result |-> {}]
        ELSE [warned |-> FALSE, searched |-> TRUE, candidates |-> direct, scanned |-> FALSE,
              result |-> {normalize_path(t) : t \in direct}]

(***************************************************************************)
(* frontend/scripts/find_related_files.py                                  *)
(***************************************************************************)

\* lines 104 and 131: the suffixes probed, in order
ProbeSuffixes == << "", ".js", ".ts", ".tsx", ".jsx", ".svelte", ".mjs", ".cjs",
                    "/index.js", "/index.ts", "/index.svelte" >>

\* the probe loop: the first existing path base + suffix, "" (None) when none exists
RECURSIVE FirstExisting(_, _)
FirstExisting(base, suffixes) ==
    IF Len(suffixes) = 0 THEN ""
    ELSE IF Exists(base \o Head(suffixes)) THEN base \o Head(suffixes)
    ELSE FirstExisting(base, Tail(suffixes))

\* lines 112-121: alias_mappings, in dictionary order
alias_mappings(base_dir) ==
    << <<"$lib",        Join3(base_dir, "src", "lib")>>,
       <<"$components", Join3(base_dir, "src", "components")>>,
       <<"$routes",     Join3(base_dir, "src", "routes")>>,
       <<"$assets",     Join3(base_dir, "src", "assets")>>,
       <<"$stores",     Join3(base_dir, "src", "stores")>>,
       <<"@",           Join(base_dir, "src")>>,
       <<"~",           Join(base_dir, "src")>> >>

\* lines 124-134: the loop over the aliases; "" when no alias resolves
RECURSIVE ResolveAlias(_, _)
ResolveAlias(import_path, aliases) ==
    IF Len(aliases) = 0 THEN ""
    ELSE LET alias == Head(aliases)[1]
             target == Head(aliases)[2]
             absolute_path == Join(target, From(import_path, Len(alias) + 2))
             hit == FirstExisting(absolute_path, ProbeSuffixes)
         IN  IF StartsWith(import_path, alias \o "/") /\ hit # ""
             THEN hit
             ELSE ResolveAlias(import_path, Tail(aliases))

\* resolve_import_to_filepath looking an unresolved bare specifier up under
\* node_modules of the project root
resolve_import_to_filepath_node_modules(import_path, base_dir, file_with_import) ==
    IF StartsWith(import_path, ".")
    THEN FirstExisting(NormPath(Join(Dirname(file_with_import), import_path)), ProbeSuffixes)
    ELSE IF ResolveAlias(import_path, alias_mappings(base_dir)) # ""
    THEN ResolveAlias(import_path, alias_mappings(base_dir))
    ELSE FirstExisting(Join3(base_dir, "node_modules", import_path), ProbeSuffixes)

\* resolve_import_to_filepath: the path returned, "" for None
resolve_import_to_filepath(import_path, base_dir, file_with_import) ==
    IF StartsWith(import_path, ".")
    THEN FirstExisting(NormPath(Join(Dirname(file_with_import), import_path)), ProbeSuffixes)
    ELSE ResolveAlias(import_path, alias_mappings(base_dir))

(***************************************************************************)
(* Bounds and the files and input lines the model draws from               *)
(***************************************************************************)

MaxFiles == 3   \* at most this many files exist in the workspace
MaxInput == 2   \* at most this many lines in the input list

\* frontend workspace: two sources, their naming-convention tests and test
\* files that reference a source by import or by text only
FrontendFiles ==
    [p \in { "/w/src/components/Button.svelte",
             "/w/src/components/__tests__/Button.test.js",
             "/w/tests/components/Button.spec.ts",
             "/w/src/lib/util.js",
             "/w/tests/unit/misc.spec.js",
             "/w/tests/e2e/nav.spec.ts",
             "/w/tests/e2e/setup.test.ts" } |->
        CASE p = "/w/src/components/Button.svelte" -> "<script>export let label</script><button>{label}</button>"
          [] p = "/w/src/components/__tests__/Button.test.js" -> "import Button from '../Button.svelte'"
          [] p = "/w/tests/components/Button.spec.ts" -> "test('renders', () => {})"
          [] p = "/w/src/lib/util.js" -> "export const util = 1"
          [] p = "/w/tests/unit/misc.spec.js" -> "describe('misc', () => { const util = 2 })"
          [] p = "/w/tests/e2e/nav.spec.ts" -> "import { go } from '$lib/util'"
          [] p = "/w/tests/e2e/setup.test.ts" -> "import 'vitest'\nlet util = 0"]

FrontendLines ==
    { "src/components/Button.svelte", "src/lib/util.js",
      "src/components/__tests__/Button.test.js", "" }

\* backend workspace: a module file with tests in the module, in the parent
\* directory and under a non-matching name, and a file without tests
BackendFiles ==
    [p \in { "/w/backend/core/models.py",
             "/w/backend/core/tests/test_models.py",
             "/w/backend/core/test/models_tests.py",
             "/w/backend/tests/test_models.py",
             "/w/utils/math.py" } |-> ""]

BackendLines ==
    { "backend/core/models.py", "core/models.py", "utils/math.py",
      "backend/core/tests/test_models.py", "" }

\* the restrictions of a file table to at most MaxFiles files
Filesystems(table) ==
    {[p \in S |-> table[p]] : S \in {T \in SUBSET DOMAIN table : Cardinality(T) <= MaxFiles}}

\* the input lists of at most MaxInput lines
InputLists(lines) == UNION {[1..n -> lines] : n \in 0..MaxInput}

(***************************************************************************)
(* main of the two find_related_test_files.py scripts                      *)
(***************************************************************************)

\* dict[key] = value
DictSet(dict, key, value) ==
    [k \in DOMAIN dict \cup {key} |-> IF k = key THEN value ELSE dict[k]]

\* dict.get(key, [])
DictGet(dict, key) == IF key \in DOMAIN dict THEN dict[key] ELSE <<>>

\* list(set(...)): the elements of a set in any order
ListsOf(set) == {q \in [1..Cardinality(set) -> set] : Range(q) = set}

\* lines 374-377 and 160-163: remove duplicates while preserving order
RECURSIVE unique_test_files(_)
unique_test_files(list) ==
    IF Len(list) = 0 THEN <<>>
    ELSE LET front == unique_test_files(SubSeq(list, 1, Len(list) - 1))
             last  == list[Len(list)]
         IN  IF last \in Range(front) THEN front ELSE Append(front, last)

\* the line the file iterator yields next: the lowest line not yet consumed
NextLine == CHOOSE k \in 1..(Len(input) + 1) : k \notin consumed /\ \A j \in 1..(k - 1) : j \in consumed

Init ==
    /\ script \in {"frontend", "backend"}
    /\ files \in Filesystems(IF script = "frontend" THEN FrontendFiles ELSE BackendFiles)
    /\ input \in InputLists(IF script = "frontend" THEN FrontendLines ELSE BackendLines)
    /\ pc = "open"
    /\ consumed = {}
    /\ source_files_list = <<>>
    /\ file_to_tests_map = <<>>
    /\ all_test_files = <<>>
    /\ warnings = {}
    /\ trace = <<>>
    /\ output = <<>>
    /\ exit_code = -1
    /\ import_request = <<>>
    /\ resolved_file = ""
    /\ previous_output = <<>>
    /\ unreadable = {}
    /\ reference_request = <<>>
    /\ references = <<>>

\* line 347 / 131: the input list is opened
OpenInput ==
    /\ pc = "open"
    /\ pc' = "loop"
    /\ UNCHANGED <<script, files, input, consumed, source_files_list, file_to_tests_map,
                   all_test_files, warnings, trace, output, exit_code, import_request, resolved_file,
                   previous_output, unreadable, reference_request, references>>

\* lines 403-405 / 176-178: the input list cannot be read
OpenInputFails ==
    /\ pc = "open"
    /\ pc' = "failed"
    /\ exit_code' = 1
    /\ UNCHANGED <<script, files, input, consumed, source_files_list, file_to_tests_map,
                   all_test_files, warnings, trace, output, import_request, resolved_file,
                   previous_output, unreadable, reference_request, references>>

\* frontend lines 348-371: one iteration of the loop over the input lines
FrontendLine(k) ==
    /\ script = "frontend"
    /\ pc = "loop"
    /\ k \in 1..Len(input)
    /\ k \notin consumed
    /\ consumed' = consumed \cup {k}
    /\ LET file_path == Strip(input[k])
           full_test_path == Join(workspace_dir, file_path)
           rel_test_path  == RelPath(full_test_path, workspace_dir)
       IN  IF file_path = ""
           THEN /\ trace' = (k :> [kind |-> "blank", turn |-> Cardinality(consumed) + 1]) @@ trace
                /\ UNCHANGED <<source_files_list, file_to_tests_map, all_test_files, warnings>>
           ELSE IF frontend_is_test_file(file_path)
           THEN /\ source_files_list' = Append(source_files_list, file_path)
                /\ trace' = (k :> [kind |-> "test", turn |-> Cardinality(consumed) + 1, path |-> file_path]) @@ trace
                /\ IF Exists(full_test_path)
                   THEN /\ all_test_files' = Append(all_test_files, rel_test_path)
                        /\ file_to_tests_map' = DictSet(file_to_tests_map, file_path, <<rel_test_path>>)
                   ELSE UNCHANGED <<all_test_files, file_to_tests_map>>
                /\ UNCHANGED warnings
           ELSE \* line 365: test_files = find_direct_test_file(file_path, workspace_dir)
                \E found \in {frontend_find_direct_test_file(file_path)} :
                    /\ source_files_list' = Append(source_files_list, file_path)
                    /\ trace' = (k :> [kind |-> "source", turn |-> Cardinality(consumed) + 1,
                                    path |-> file_path, found |-> found]) @@ trace
                    /\ warnings' = IF found.warned THEN warnings \cup {file_path} ELSE warnings
                    /\ \E test_files \in ListsOf(found.result) :
                           /\ file_to_tests_map' = DictSet(file_to_tests_map, file_path, test_files)
                           /\ all_test_files' = all_test_files \o test_files
    /\ UNCHANGED <<script, files, input, pc, output, exit_code, import_request, resolved_file,
                   previous_output, unreadable, reference_request, references>>

\* backend lines 132-157: one iteration of the loop over the input lines
BackendLine(k) ==
    /\ script = "backend"
    /\ pc = "loop"
    /\ k \in 1..Len(input)
    /\ k \notin consumed
    /\ consumed' = consumed \cup {k}
    /\ LET file_path == Strip(input[k])
           resolved_test_path == resolved_file_path(file_path)
       IN  IF file_path = ""
           THEN /\ trace' = (k :> [kind |-> "blank", turn |-> Cardinality(consumed) + 1]) @@ trace
                /\ UNCHANGED <<file_to_tests_map, all_test_files, warnings>>
           ELSE IF backend_is_test_file(file_path)
           THEN /\ trace' = (k :> [kind |-> "test", turn |-> Cardinality(consumed) + 1, path |-> file_path]) @@ trace
                /\ all_test_files' = IF resolved_test_path # ""
                                     THEN Append(all_test_files, resolved_test_path)
                                     ELSE all_test_files
                /\ UNCHANGED <<file_to_tests_map, warnings>>
           ELSE \* line 154: test_files = find_direct_test_file(file_path, workspace_dir)
                \E found \in {backend_find_direct_test_file(file_path)} :
                    /\ trace' = (k :> [kind |-> "source", turn |-> Cardinality(consumed) + 1,
                                    path |-> file_path, found |-> found]) @@ trace
                    /\ warnings' = IF found.warned THEN warnings \cup {file_path} ELSE warnings
                    /\ \E test_files \in ListsOf(found.result) :
                           IF test_files # <<>>
                           THEN /\ file_to_tests_map' = DictSet(file_to_tests_map, file_path, test_files)
                                /\ all_test_files' = all_test_files \o test_files
                           ELSE UNCHANGED <<file_to_tests_map, all_test_files>>
    /\ UNCHANGED <<script, files, input, pc, source_files_list, output, exit_code,
                   import_request, resolved_file,
                   previous_output, unreadable, reference_request, references>>

\* frontend lines 390-392: related_tests_map
related_tests_map ==
    [source_file \in Range(source_files_list) |-> DictGet(file_to_tests_map, source_file)]

\* frontend lines 373-401, backend lines 159-174: the artifacts are written and main returns
WriteOutputs ==
    /\ pc = "loop"
    /\ consumed = 1..Len(input)
    /\ output' = IF script = "frontend"
                 THEN [name \in {"all_test_files.txt", "test_files_mapping.json", "related_tests.json"} |->
                          CASE name = "all_test_files.txt"      -> unique_test_files(all_test_files)
                            [] name = "test_files_mapping.json" -> file_to_tests_map
                            [] name = "related_tests.json"      -> related_tests_map]
                 ELSE [name \in {"all_test_files.txt", "test_files_mapping.json"} |->
                          CASE name = "all_test_files.txt"      -> unique_test_files(all_test_files)
                            [] name = "test_files_mapping.json" -> file_to_tests_map]
    /\ pc' = "done"
    /\ exit_code' = 0
    /\ UNCHANGED <<script, files, input, consumed, source_files_list, file_to_tests_map,
                   all_test_files, warnings, trace, import_request, resolved_file,
                   previous_output, unreadable, reference_request, references>>

\* lines 403-405 / 176-178: an artifact cannot be written
WriteOutputsFails ==
    /\ pc = "loop"
    /\ consumed = 1..Len(input)
    /\ pc' = "failed"
    /\ exit_code' = 1
    /\ UNCHANGED <<script, files, input, consumed, source_files_list, file_to_tests_map,
                   all_test_files, warnings, trace, output, import_request, resolved_file,
                   previous_output, unreadable, reference_request, references>>

\* the loop of main takes the lines in file order
ReadFrontendLine == FrontendLine(NextLine)
ReadBackendLine == BackendLine(NextLine)

Next ==
    \/ OpenInput
    \/ OpenInputFails
    \/ ReadFrontendLine
    \/ ReadBackendLine
    \/ WriteOutputs
    \/ WriteOutputsFails

Spec == Init /\ [][Next]_vars

(***************************************************************************)
(* The per-file pipeline run by workers in any order, results merged into  *)
(* the shared collections after each line                                  *)
(***************************************************************************)

\* a worker is handed a path: blank lines are dropped when the list is read,
\* so the list the workers share holds the non-blank lines
InitAnyOrder == Init /\ \A k \in 1..Len(input) : Strip(input[k]) # ""

TakeFrontendLine == \E k \in 1..Len(input) : FrontendLine(k)
TakeBackendLine == \E k \in 1..Len(input) : BackendLine(k)

NextAnyOrder ==
    \/ OpenInput
    \/ OpenInputFails
    \/ TakeFrontendLine
    \/ TakeBackendLine
    \/ WriteOutputs
    \/ WriteOutputsFails

SpecAnyOrder == InitAnyOrder /\ [][NextAnyOrder]_vars

(***************************************************************************)
(* The frontend script run twice on the same input list and filesystem     *)
(***************************************************************************)

InitTwice == Init /\ script = "frontend"

\* lines 333-345: main is started again after a finished run; its collections
\* start empty, the artifacts of the earlier run stay behind in the working
\* directory until the new run overwrites them
RunAgain ==
    /\ script = "frontend"
    /\ pc = "done"
    /\ previous_output = <<>>
    /\ previous_output' = output
    /\ pc' = "open"
    /\ consumed' = {}
    /\ source_files_list' = <<>>
    /\ file_to_tests_map' = <<>>
    /\ all_test_files' = <<>>
    /\ warnings' = {}
    /\ trace' = <<>>
    /\ exit_code' = -1
    /\ UNCHANGED <<script, files, input, output, import_request, resolved_file,
                   unreadable, reference_request, references>>

NextTwice ==
    \/ OpenInput
    \/ OpenInputFails
    \/ ReadFrontendLine
    \/ WriteOutputs
    \/ WriteOutputsFails
    \/ RunAgain

SpecTwice == InitTwice /\ [][NextTwice]_vars

(***************************************************************************)
(* The frontend script in a workspace with test files that cannot be read  *)
(***************************************************************************)

\* two sources and two test files that import the first source; no test file
\* carries the name of a source, so the reference scan decides
UnreadableFiles ==
    [p \in { "/w/src/lib/ui/panel.js",
             "/w/src/lib/ui/grid.js",
             "/w/tests/unit/a.test.ts",
             "/w/tests/unit/b.spec.ts" } |->
        CASE p = "/w/tests/unit/a.test.ts" -> "import x from '../../src/lib/ui/panel'"
          [] p = "/w/tests/unit/b.spec.ts" -> "import y from '$lib/ui/panel'"
          [] OTHER -> ""]

UnreadableLines == { "src/lib/ui/panel.js", "src/lib/ui/grid.js" }

InitUnreadable ==
    /\ script = "frontend"
    /\ files \in Filesystems(UnreadableFiles)
    /\ unreadable \in SUBSET {p \in DOMAIN files : StartsWith(p, "/w/tests/")}
    /\ input \in InputLists(UnreadableLines)
    /\ pc = "open"
    /\ consumed = {}
    /\ source_files_list = <<>>
    /\ file_to_tests_map = <<>>
    /\ all_test_files = <<>>
    /\ warnings = {}
    /\ trace = <<>>
    /\ output = <<>>
    /\ exit_code = -1
    /\ import_request = <<>>
    /\ resolved_file = ""
    /\ previous_output = <<>>
    /\ reference_request = <<>>
    /\ references = <<>>

NextUnreadable ==
    \/ OpenInput
    \/ OpenInputFails
    \/ ReadFrontendLine
    \/ WriteOutputs
    \/ WriteOutputsFails

SpecUnreadable == InitUnreadable /\ [][NextUnreadable]_vars

(***************************************************************************)
(* Calls of resolve_import_to_filepath on a test file's import specifiers  *)
(***************************************************************************)

\* the importing file; find_related_files only resolves imports of an existing file
ImportingFile == "/w/src/a/b.test.ts"

ResolverFiles ==
    [p \in { "/w/src/a/helpers.ts",
             "/w/src/a/helpers/index.ts",
             "/w/src/lib/x.ts",
             "/w/secret.js",
             "/w/node_modules/vitest/index.js" } |-> ""]

Specifiers ==
    { "./helpers", "$lib/x", "$lib/../../secret", "$lib/../../secret.js",
      "vitest", "@scope/pkg", "$x/y" }

InitResolve ==
    /\ script = "resolver"
    /\ files \in {(ImportingFile :> "import h from './helpers'") @@ fs : fs \in Filesystems(ResolverFiles)}
    /\ import_request \in [import_path : Specifiers, base_dir : {workspace_dir},
                           file_with_import : {ImportingFile}]
    /\ pc = "call"
    /\ resolved_file = ""
    /\ input = <<>>
    /\ consumed = {}
    /\ source_files_list = <<>>
    /\ file_to_tests_map = <<>>
    /\ all_test_files = <<>>
    /\ warnings = {}
    /\ trace = <<>>
    /\ output = <<>>
    /\ exit_code = -1
    /\ previous_output = <<>>
    /\ unreadable = {}
    /\ reference_request = <<>>
    /\ references = <<>>

\* find_related_files line 155: one import specifier is resolved
ResolveImport ==
    /\ pc = "call"
    /\ resolved_file' = resolve_import_to_filepath(import_request.import_path,
                                                   import_request.base_dir,
                                                   import_request.file_with_import)
    /\ pc' = "returned"
    /\ UNCHANGED <<script, files, input, consumed, source_files_list, file_to_tests_map,
                   all_test_files, warnings, trace, output, exit_code, import_request,
                   previous_output, unreadable, reference_request, references>>

NextResolve == ResolveImport

SpecResolve == InitResolve /\ [][NextResolve]_vars

(***************************************************************************)
(* Calls of check_import_references_file on a test file and a source file  *)
(***************************************************************************)

\* the source files of the workspace the calls are made in
ReferenceFiles ==
    [p \in { "/w/src/lib/ui/panel.js",
             "/w/src/lib/ui/panel.ts",
             "/w/tests/unit/markup.js" } |-> ""]

\* the test file of the call: a TypeScript test and a Svelte file
ReferenceTestFiles == { "/w/tests/unit/panel.test.ts", "/w/tests/unit/Card.svelte" }

\* the texts the test file may hold
ReferenceTexts ==
    { "import x from '../../src/lib/ui/panel'",
      "import x from '$lib/ui/panel'",
      "import x from '@/lib/ui/panel'",
      "import 'vitest'\ntest('panel works', () => {})",
      "<p>import c from './markup'</p>",
      "<script>import a from './a'</script><p>import c from './markup'</p>" }

\* the source file of the call, relative to the workspace
ReferenceSources == { "src/lib/ui/panel.js", "src/lib/ui/panel.ts" }

InitReference ==
    /\ script = "reference"
    /\ reference_request \in [test_file_path : ReferenceTestFiles, source_file_path : ReferenceSources]
    /\ files \in {(reference_request.test_file_path :> text) @@ fs :
                      text \in ReferenceTexts, fs \in Filesystems(ReferenceFiles)}
    /\ references = <<>>
    /\ pc = "call"
    /\ import_request = <<>>
    /\ resolved_file = ""
    /\ input = <<>>
    /\ consumed = {}
    /\ source_files_list = <<>>
    /\ file_to_tests_map = <<>>
    /\ all_test_files = <<>>
    /\ warnings = {}
    /\ trace = <<>>
    /\ output = <<>>
    /\ exit_code = -1
    /\ previous_output = <<>>
    /\ unreadable = {}

\* line 318: check_import_references_file(test_file, file_path, workspace_dir);
\* the record keeps the imports extracted (line 124), whether an import of the
\* loop resolved to the source, whether the content check matched, and the
\* value returned
CheckReferences ==
    /\ script = "reference"
    /\ pc = "call"
    /\ \E imports \in {extract_imports(reference_request.test_file_path)} :
           references' =
               [imports |-> imports,
                import_grounded |->
                    \E import_path \in imports :
                        ImportResolvesToSource(import_path, reference_request.test_file_path,
                                               reference_request.source_file_path),
                textual |-> imports # {} /\ ContentReferences(reference_request.test_file_path,
                                                              reference_request.source_file_path),
                result |-> check_import_references_file(reference_request.test_file_path,
                                                        reference_request.source_file_path)]
    /\ pc' = "returned"
    /\ UNCHANGED <<script, files, input, consumed, source_files_list, file_to_tests_map,
                   all_test_files, warnings, trace, output, exit_code, import_request, resolved_file,
                   previous_output, unreadable, reference_request>>

NextReference == CheckReferences

SpecReference == InitReference /\ [][NextReference]_vars

(***************************************************************************)
(* Properties                                                              *)
(***************************************************************************)

\* the test-file predicate of the running script
is_test_file(file_path) ==
    IF script = "backend" THEN backend_is_test_file(file_path) ELSE frontend_is_test_file(file_path)

\* the file-to-tests mapping a finished run has emitted: related_tests.json of
\* the frontend script, test_files_mapping.json of the backend script
EmittedMapping ==
    IF "related_tests.json" \in DOMAIN output
    THEN output["related_tests.json"]
    ELSE output["test_files_mapping.json"]

\* the non-blank paths of the input list
InputPaths == {Strip(input[k]) : k \in 1..Len(input)} \ {""}

\* the source path is found on disk (frontend line 230, backend lines 45-51)
SourceFound(file_path) ==
    IF script = "backend" THEN resolved_file_path(file_path) # ""
    ELSE Exists(Join(workspace_dir, file_path))

\* C1: after a run, every non-blank path of the input list is a key of the
\* emitted file-to-tests mapping (frontend and backend).
C1_EveryInputPathIsKey ==
    pc = "done" => \A file_path \in InputPaths : file_path \in DOMAIN EmittedMapping

\* C2: after a run, every input path that satisfies is_test_file is mapped to
\* exactly the singleton list containing itself.
C2_TestFileMapsToItself ==
    pc = "done" =>
        \A file_path \in InputPaths :
            is_test_file(file_path) =>
                /\ file_path \in DOMAIN EmittedMapping
                /\ EmittedMapping[file_path] = <<file_path>>

\* C3: after a run, the flat list all_test_files.txt equals, as a set, the
\* union of the values of the file-to-tests mapping.
C3_SupersetIsUnionOfValues ==
    pc = "done" =>
        Range(output["all_test_files.txt"])
            = UNION {Range(EmittedMapping[file_path]) : file_path \in DOMAIN EmittedMapping}

\* the lines of the input list whose path went through find_direct_test_file
SourceLines == {k \in DOMAIN trace : trace[k].kind = "source"}

\* the form in which the script emits a test path: workspace-relative in the
\* frontend (line 324), normalized absolute in the backend (line 114)
EmitPath(p) == IF script = "backend" THEN normalize_path(p) ELSE RelPath(p, workspace_dir)

\* C4: after a run of the frontend script, for every non-test source file the
\* reference scan was executed if and only if the naming/directory search
\* produced an empty result; a non-empty search result is the mapping value
\* unchanged.
C4_FallbackIffSearchEmpty ==
    (script = "frontend" /\ pc = "done") =>
        \A k \in SourceLines :
            LET found == trace[k].found
            IN  /\ found.scanned <=> (found.searched /\ found.candidates = {})
                /\ found.candidates # {} =>
                       Range(file_to_tests_map[trace[k].path]) = {EmitPath(c) : c \in found.candidates}

\* C4 witness: the search found nothing, the reference scan ran and matched a test file
C4_Witness ==
    /\ script = "frontend"
    /\ pc = "done"
    /\ \E k \in SourceLines :
           /\ trace[k].found.searched
           /\ trace[k].found.candidates = {}
           /\ trace[k].found.scanned
           /\ file_to_tests_map[trace[k].path] # <<>>

\* the candidate directories and names of a source path, in list order
CandidateDirs(file_path) ==
    IF script = "backend"
    THEN search_locations(file_path) \o parent_test_dirs(file_path)
    ELSE relative_test_locations(file_path) \o project_test_locations(file_path)

CandidateNames(file_path) ==
    IF script = "backend" THEN backend_test_patterns(file_path) ELSE frontend_test_patterns(file_path)

\* the existing paths directory/name of a list of directories
ExistingCandidates(dirs, file_path) ==
    {q \in {Join(d, n) : d \in Range(dirs), n \in Range(CandidateNames(file_path))} : Exists(q)}

\* C5 as stated: after a run, find_direct_test_file has returned every existing
\* path of the cross product of its candidate directories and candidate names,
\* whichever other pairs exist (frontend and backend).
C5_AllExistingPairsReturned ==
    pc = "done" =>
        \A k \in SourceLines :
            trace[k].found.searched =>
                \A q \in ExistingCandidates(CandidateDirs(trace[k].path), trace[k].path) :
                    EmitPath(q) \in trace[k].found.result

\* C5 as amended: after a run, the frontend has returned every existing pair;
\* the backend has returned every existing pair of its primary search locations,
\* and the pairs of the parent directory's tests/test folders only when no
\* primary pair exists.
C5_AllPairsFrontendPrimaryFirstBackend ==
    pc = "done" =>
        \A k \in SourceLines :
            trace[k].found.searched =>
                LET file_path == trace[k].path
                    result    == Range(DictGet(file_to_tests_map, file_path))
                    primary   == ExistingCandidates(search_locations(file_path), file_path)
                    parent    == ExistingCandidates(parent_test_dirs(file_path), file_path)
                IN  IF script = "frontend"
                    THEN \A q \in ExistingCandidates(CandidateDirs(file_path), file_path) :
                             EmitPath(q) \in result
                    ELSE /\ primary # {} => result = {EmitPath(q) : q \in primary}
                         /\ primary = {} => result = {EmitPath(q) : q \in parent}

\* C5 witness: two different existing candidates are returned for one source file
C5_Witness ==
    /\ pc = "done"
    /\ \E k \in SourceLines :
           /\ trace[k].found.searched
           /\ Cardinality(ExistingCandidates(CandidateDirs(trace[k].path), trace[k].path)) >= 2
           /\ Len(DictGet(file_to_tests_map, trace[k].path)) >= 2

\* C6 as stated: for "./helpers" imported from <dir>/b.test.ts, <dir>/helpers.ts
\* is returned when it exists; else <dir>/helpers/index.ts when it exists; else
\* nothing.
C6_HelpersThenIndex ==
    (pc = "returned" /\ import_request.import_path = "./helpers") =>
        LET dir     == Dirname(import_request.file_with_import)
            helpers == Join(dir, "helpers.ts")
            index   == Join3(dir, "helpers", "index.ts")
        IN  /\ IsFile(helpers) => resolved_file = helpers
            /\ (~IsFile(helpers) /\ IsFile(index)) => resolved_file = index
            /\ (~IsFile(helpers) /\ ~IsFile(index)) => resolved_file = ""

\* the alias table entries whose prefix the specifier starts with
MatchingAliases(import_path, base_dir) ==
    {a \in Range(alias_mappings(base_dir)) : StartsWith(import_path, a[1] \o "/")}

\* C7 as stated: every path returned for a specifier that starts with a
\* configured alias prefix designates a file under that alias's target directory.
C7_AliasStaysInSubtree ==
    (pc = "returned" /\ resolved_file # "") =>
        \A a \in MatchingAliases(import_request.import_path, import_request.base_dir) :
            StartsWith(Designates(resolved_file), a[2] \o "/")

\* C8 as stated: in the reference scan every enumerated test file that
\* references the source textually is reported as a match, also when no import
\* specifier is extracted from it.
C8_TextualReferenceAlwaysMatches ==
    script = "frontend" =>
        \A k \in SourceLines :
            trace[k].found.scanned =>
                \A test_file \in scan_test_files(trace[k].path) :
                    ContentReferences(test_file, trace[k].path) =>
                        EmitPath(test_file) \in Range(file_to_tests_map[trace[k].path])

\* C9 as stated: a source path missing on disk is warned about, gets an empty
\* mapping entry and does not stop the batch, which ends with exit code 0.
C9_MissingSourceWarnedAndEmpty ==
    pc = "done" =>
        \A file_path \in InputPaths :
            (~is_test_file(file_path) /\ ~SourceFound(file_path)) =>
                /\ file_path \in warnings
                /\ file_path \in DOMAIN EmittedMapping
                /\ EmittedMapping[file_path] = <<>>
                /\ consumed = 1..Len(input)
                /\ exit_code = 0

\* the mapping value of one path as main computes it from the path and the
\* filesystem alone; absent when main makes no entry for the path
LineValue(file_path) ==
    LET full_test_path == Join(workspace_dir, file_path)
        rel_test_path  == RelPath(full_test_path, workspace_dir)
        frontend_tests == frontend_find_direct_test_file(file_path).result
        backend_tests  == backend_find_direct_test_file(file_path).result
        resolved       == resolved_file_path(file_path)
    IN  IF script = "frontend"
        THEN IF frontend_is_test_file(file_path)
             THEN IF Exists(full_test_path)
                  THEN [entry |-> TRUE, tests |-> {rel_test_path}, flat |-> {rel_test_path}]
                  ELSE [entry |-> FALSE, tests |-> {}, flat |-> {}]
             ELSE [entry |-> TRUE, tests |-> frontend_tests, flat |-> frontend_tests]
        ELSE IF backend_is_test_file(file_path)
             THEN [entry |-> FALSE, tests |-> {}, flat |-> IF resolved # "" THEN {resolved} ELSE {}]
             ELSE [entry |-> backend_tests # {}, tests |-> backend_tests, flat |-> backend_tests]

\* the value of every non-blank path of a list, each computed once
LineValues(lines) ==
    {<<file_path, LineValue(file_path)>> : file_path \in {Strip(lines[k]) : k \in 1..Len(lines)} \ {""}}

\* the collections of the sequential run: the lines folded in file order, the
\* value of each path taken from values
RECURSIVE SequentialRun(_, _)
SequentialRun(lines, values) ==
    IF Len(lines) = 0 THEN [map |-> <<>>, flat |-> {}]
    ELSE LET before    == SequentialRun(SubSeq(lines, 1, Len(lines) - 1), values)
             file_path == Strip(lines[Len(lines)])
             value     == (CHOOSE pv \in values : pv[1] = file_path)[2]
         IN  IF file_path = "" THEN before
             ELSE [map  |-> IF value.entry THEN DictSet(before.map, file_path, value.tests) ELSE before.map,
                   flat |-> before.flat \cup value.flat]

\* C10: processing the input lines in any order, merging after each line,
\* yields the same mapping value for every file and the same superset as the
\* sequential run, whose values depend on the path and the filesystem alone.
C10_AnyOrderSameResult ==
    pc = "done" =>
        LET sequential == SequentialRun(input, LineValues(input))
        IN  /\ DOMAIN file_to_tests_map = DOMAIN sequential.map
            /\ \A file_path \in DOMAIN file_to_tests_map :
                   Range(file_to_tests_map[file_path]) = sequential.map[file_path]
            /\ Range(output["all_test_files.txt"]) = sequential.flat

\* C10 witness: a run finished in which a later line with test files was
\* processed before an earlier line with test files
C10_Witness ==
    /\ pc = "done"
    /\ \E j, k \in SourceLines :
           /\ j < k
           /\ trace[j].turn > trace[k].turn
           /\ trace[j].path # trace[k].path
           /\ trace[j].found.result # {}
           /\ trace[k].found.result # {}

\* the set of test files of every key of a mapping artifact
TestSets(mapping) == [file_path \in DOMAIN mapping |-> Range(mapping[file_path])]

C12_BareSpecifierUnresolved ==
    (/\ pc = "returned"
     /\ ~StartsWith(import_request.import_path, ".")
     /\ MatchingAliases(import_request.import_path, import_request.base_dir) = {})
        => resolved_file = ""

\* C12 witness: "vitest" was looked up while the package is installed under
\* node_modules of the project root, and nothing was returned
C12_Witness ==
    /\ pc = "returned"
    /\ import_request.import_path = "vitest"
    /\ IsFile(Join3(import_request.base_dir, "node_modules", "vitest/index.js"))
    /\ resolved_file = ""

\* the path the resolver of find_related_files.py returns for a specifier of
\* the test file of the call, "" for None
ResolverPath(import_path) ==
    resolve_import_to_filepath(import_path, workspace_dir, reference_request.test_file_path)

\* C13 as stated: the reference check records an import-grounded match exactly
\* when the resolver's resolution of some specifier extracted from the test
\* file (same alias table, same suffix and index probing, first hit wins)
\* normalizes to the source file.
C13_ImportSignalAgreesWithResolver ==
    (script = "reference" /\ pc = "returned") =>
        (references.import_grounded <=>
            \E import_path \in references.imports :
                /\ ResolverPath(import_path) # ""
                /\ normalize_path(ResolverPath(import_path))
                       = normalize_path(Join(workspace_dir, reference_request.source_file_path)))

\* C14 as stated: for a .svelte file the import extraction scans only the
\* concatenated script regions; text outside every script region contributes
\* nothing, and a file without script region yields no specifier.
C14_SvelteScansScriptRegionsOnly ==
    (/\ script = "reference"
     /\ pc = "returned"
     /\ EndsWith(reference_request.test_file_path, ".svelte"))
        => references.imports
               = import_specifiers(JoinStr(FindScripts(files[reference_request.test_file_path], 1), "\n"))

\* the quoted titles of the test(...) and describe(...) calls of a text
CallTitles(content) ==
    {Quoted(content, i + Len(call)).cap :
        <<i, call>> \in {ic \in (1..Len(content)) \X {"test(", "describe("} :
                            /\ OccursAt(content, ic[2], ic[1])
                            /\ Quoted(content, ic[1] + Len(ic[2])).end # 0}}

\* C17 as stated: the textual heuristic reports a match when the text of the
\* test file contains a test(...) or describe(...) call whose quoted title
\* contains the source base name in any of its case forms, also when the name
\* occurs nowhere else in the file.
C17_TitleMentionMatches ==
    (script = "reference" /\ pc = "returned") =>
        LET content == Lower(files[reference_request.test_file_path])
            source_base_name == Splitext(Basename(reference_request.source_file_path))[1]
        IN  (\E title \in CallTitles(content) :
                 \E name \in component_names(source_base_name) : Contains(title, name))
                => references.result

\* C15: a test file that cannot be read or decoded contributes no match to any
\* source file; the error stays inside the extraction: the readable test files
\* that import the source are still reported, no run stops in the middle of
\* the input list, and a finished run has processed every line, emitted every
\* source path and exits with code 0.
C15_UnreadableTestFileContained ==
    /\ \A k \in SourceLines :
           /\ \A test_file \in unreadable : EmitPath(test_file) \notin trace[k].found.result
           /\ trace[k].found.scanned =>
                  \A test_file \in scan_test_files(trace[k].path) \ unreadable :
                      (\E import_path \in import_specifiers(files[test_file]) :
                           ImportResolvesToSource(import_path, test_file, trace[k].path))
                          => EmitPath(test_file) \in trace[k].found.result
    /\ pc = "failed" => (consumed = {} \/ consumed = 1..Len(input))
    /\ pc = "done" =>
           /\ consumed = 1..Len(input)
           /\ InputPaths \subseteq DOMAIN output["related_tests.json"]
           /\ exit_code = 0

\* C15 witness: a run finished in which the scan for a source met an unreadable
\* test file whose text imports the source, and a readable test file that
\* imports it was reported
C15_Witness ==
    /\ pc = "done"
    /\ exit_code = 0
    /\ \E k \in SourceLines :
           /\ trace[k].found.scanned
           /\ \E test_file \in unreadable \cap scan_test_files(trace[k].path) :
                  \E import_path \in import_specifiers(files[test_file]) :
                      ImportResolvesToSource(import_path, test_file, trace[k].path)
           /\ trace[k].found.result # {}

\* the file an emitted path names exists: frontend paths are relative to the
\* workspace, backend paths are absolute
EmittedExists(p) == Exists(IF script = "backend" THEN p ELSE Join(workspace_dir, p))

\* every path of the artifacts of a finished run
EmittedPaths ==
    UNION {IF name = "all_test_files.txt" THEN Range(output[name])
           ELSE UNION {Range(output[name][file_path]) : file_path \in DOMAIN output[name]} :
           name \in DOMAIN output}

\* C16: every path that appears in a mapping value or in the flat superset of
\* a finished run exists on the filesystem; no candidate name without a file
\* and no absent test-file input is emitted (frontend and backend).
C16_EmittedPathsExist ==
    pc = "done" => \A p \in EmittedPaths : EmittedExists(p)

\* C16 witness: a run finished that found a test file for a source file, with
\* other candidate names absent, and whose input list named an absent test file
C16_Witness ==
    /\ pc = "done"
    /\ \E k \in SourceLines : trace[k].found.result # {}
    /\ \E k \in DOMAIN trace : trace[k].kind = "test" /\ ~SourceFound(trace[k].path)
    /\ EmittedPaths # {}

\* C18 as stated: every path find_direct_test_file returns for a non-test
\* source file satisfies is_test_file of the same script, for every naming
\* pattern and every directory searched.
C18_ReturnedPathsAreTestFiles ==
    \A k \in SourceLines :
        \A p \in trace[k].found.result : is_test_file(p)

====
